---- MODULE Spec2Model ----
(***************************************************************************)
(* Webpify: the upload queue (+page component), the comparison view        *)
(* (ImageComparison.svelte) and their use of convertImageToWebP.           *)
(*                                                                         *)
(* One action is one run-to-completion task of the browser's event loop:   *)
(* an event handler, a timer callback, or the continuation of an async     *)
(* function after an await, together with the reactive effects Svelte      *)
(* flushes before the next task.                                           *)
(***************************************************************************)
EXTENDS Integers, Sequences, FiniteSets, TLC

\* ------------------------------------------------------------------ bounds
MaxItems == 2
MaxUrls == 7
MaxInvocations == 2
MaxViews == 1
MaxPreviewInFlight == 4
MaxZips == 1
MaxDrop == 2
MaxCalls == 2
MaxZooms == 12
MaxPan == 20
MaxParts == 3

\* ------------------------------------------------------- values and files
NoItem == 0
NoUrl == [set |-> FALSE, revokes |-> 0]
NoFile == 0
NoName == << >>
NoMessage == ""
NoBlob == [file |-> NoFile, q |-> 0]

\* The File objects a user can select or drop: name, declared media type, size.
FileTable ==
  << [name |-> <<"a", ".", "j", "p", "g">>, type |-> "image/jpeg", size |-> 40],
     [name |-> <<"a", ".", "P", "N", "G">>, type |-> "image/png", size |-> 60],
     [name |-> <<"c", ".", "g", "i", "f">>, type |-> "image/gif", size |-> 20] >>

FileIds == 1..Len(FileTable)

\* Values of the quality slider (percent); the slider starts at 0.8.
DefaultQuality == 80
Qualities == {50, DefaultQuality}

acceptedTypes == {"image/jpeg", "image/png"}

UnsupportedMessage == "Unsupported file type. Please upload JPEG or PNG."

\* The message of the DOMException img.decode() rejects with (the browser's).
DecodeMessage == "The source image cannot be decoded."

\* The messages of the errors convertImageToWebP rejects with.
ConverterErrors == {"Canvas not supported", "Blob conversion failed", DecodeMessage}

\* ------------------------------------------------------------ output name
\* String.prototype.toLowerCase on the characters file names are built from.
Lower(c) ==
  CASE c = "J" -> "j"
    [] c = "P" -> "p"
    [] c = "E" -> "e"
    [] c = "G" -> "g"
    [] c = "N" -> "n"
    [] OTHER -> c

LowerSeq(s) == [i \in 1..Len(s) |-> Lower(s[i])]

Suffix(s, n) == SubSeq(s, Len(s) - n + 1, Len(s))

EndsWithCI(s, ext) ==
  /\ Len(s) >= Len(ext)
  /\ LowerSeq(Suffix(s, Len(ext))) = ext

\* Mutant of StripExt: the extension is matched case-sensitively.
StripExtCaseSensitive(name) ==
  IF \/ (Len(name) >= 4 /\ Suffix(name, 4) = <<".", "j", "p", "g">>)
     \/ (Len(name) >= 4 /\ Suffix(name, 4) = <<".", "p", "n", "g">>)
  THEN SubSeq(name, 1, Len(name) - 4)
  ELSE IF Len(name) >= 5 /\ Suffix(name, 5) = <<".", "j", "p", "e", "g">>
       THEN SubSeq(name, 1, Len(name) - 5)
       ELSE name

\* name.replace(/\.(jpe?g|png)$/i, '')
StripExt(name) ==
  IF \/ EndsWithCI(name, <<".", "j", "p", "g">>)
     \/ EndsWithCI(name, <<".", "p", "n", "g">>)
  THEN SubSeq(name, 1, Len(name) - 4)
  ELSE IF EndsWithCI(name, <<".", "j", "p", "e", "g">>)
       THEN SubSeq(name, 1, Len(name) - 5)
       ELSE name

\* name.replace(/\.(jpe?g|png)$/i, '') + '.webp'
OutputName(name) == StripExt(name) \o <<".", "w", "e", "b", "p">>

\* The blob a successful conversion of a file at a quality resolves with.
ConvertedBlob(f, q) == [file |-> f, q |-> q]

\* Blob.size of a converted blob.
BlobSize(b) == (FileTable[b.file].size * b.q) \div 100


\* ------------------------------------------------------------------ state
VARIABLES
  items,                 \* the array `items`: the listed UploadItem objects, by id
  it,                    \* every UploadItem object ever created, indexed by id
  quality,               \* the slider value
  selectedPreviewItem,   \* the previewed UploadItem (NoItem for null)
  previewUpdateTimeout,  \* the pending 150 ms debounce timer and its argument
  autoSelect,            \* pending 100 ms auto-select timers: each one's newItems
  invs,                  \* convertAll invocations suspended at their await
  urls,                  \* the tally of createObjectURL and revokeObjectURL calls
  views,                 \* every ImageComparison instance ever mounted
  previews,              \* conversions started by the view's effects, unresolved
  zips,                  \* archives whose generateAsync has not resolved
  downloads,             \* download triggers so far (the archive of each)
  anchors,               \* anchor URLs of downloadBlob awaiting their 1 s revoke
  everConverted,         \* ids of the items convertAll called the converter for
  lastOp,                \* the task that ran last, when a property speaks of it
  conv,                  \* convertImageToWebP looked at on its own: its calls
  gest,                  \* the zoom, pan and divider state of a view on display
  naming                 \* the output name looked at on its own: a name and its result

\* The state of the page.
page == <<items, it, quality, selectedPreviewItem, previewUpdateTimeout, autoSelect,
          invs, urls, views, previews, zips, downloads, anchors, everConverted,
          lastOp>>

\* The state of the parts looked at on their own.
apart == <<conv, gest, naming>>

vars == <<page, apart>>

\* Who creates object URLs: the thumbnailUrl and outputUrl of an item, the
\* originalUrl and webpUrl of a view.
UrlKinds == {"thumbnail", "output", "original", "webp"}

NoTimer == [set |-> FALSE, item |-> NoItem]

\* op: the handler; id: the item it deleted or went on to convert; sel: the
\* selection it found; reached: the items its loop read; through: the items
\* listed all through the convertAll invocation that ended with it.
Op(name, id, sel, reached, through) ==
  [op |-> name, id |-> id, sel |-> sel, reached |-> reached, through |-> through]

Other == Op("other", NoItem, NoItem, {}, {})

InitPage ==
  /\ items = << >>
  /\ it = << >>
  /\ quality = DefaultQuality
  /\ selectedPreviewItem = NoItem
  /\ previewUpdateTimeout = NoTimer
  /\ autoSelect = << >>
  /\ invs = {}
  /\ urls = [k \in UrlKinds |-> [created |-> 0, revoked |-> 0, leaked |-> 0, twice |-> 0]]
  /\ views = << >>
  /\ previews = << >>
  /\ zips = << >>
  /\ downloads = << >>
  /\ anchors = 0
  /\ everConverted = {}
  /\ lastOp = Other

\* No call of convertImageToWebP is looked at.
NoCall == [n |-> 0, pc |-> "none", file |-> NoFile, q |-> 0, bitmap |-> "none",
           src |-> NoUrl, outcome |-> [ok |-> FALSE, message |-> NoMessage]]

\* scale is held in millionths: Unit is the scale 1.
Unit == 1000000
MinScale == 500000
MaxScale == 3000000

\* The $state of an ImageComparison as constructed; zooms counts the zoom
\* steps taken since the last reset.
NewGestures ==
  [isDragging |-> FALSE, dividerPosition |-> 50, scale |-> Unit, panX |-> 0,
   panY |-> 0, isPanning |-> FALSE, lastPanX |-> 0, lastPanY |-> 0,
   hasInteracted |-> FALSE, zooms |-> 0]

Init ==
  /\ InitPage
  /\ conv = NoCall
  /\ gest = NewGestures
  /\ naming = [name |-> NoName, out |-> NoName]

\* ------------------------------------------------------------ object URLs
\* An object URL is held by the one field it was assigned to, so a URL is
\* modelled where it is held: set, and how often it has been revoked. `urls`
\* tallies per kind of URL the calls made and what happened to the URLs no field
\* holds any more.

\* What URL.createObjectURL returns.
FreshUrl == [set |-> TRUE, revokes |-> 0]

UrlsCreated(us) ==
  us["thumbnail"].created + us["output"].created + us["original"].created
    + us["webp"].created

\* The tally after URL.createObjectURL for a URL of kind k.
Created(us, k) == [us EXCEPT ![k].created = @ + 1]

\* A URL-valued field after `if (u) URL.revokeObjectURL(u)`.
RevokeIfSet(u) == IF u.set THEN [u EXCEPT !.revokes = @ + 1] ELSE u

\* The tally after `if (u) URL.revokeObjectURL(u)` for a URL of kind k.
Revoked(us, k, u) ==
  IF u.set
  THEN [us EXCEPT ![k].revoked = @ + 1,
                  ![k].twice = @ + (IF u.revokes > 0 THEN 1 ELSE 0)]
  ELSE us

\* The tally after a field of kind k that held u is assigned another URL.
Dropped(us, k, u) ==
  IF u.set /\ u.revokes = 0 THEN [us EXCEPT ![k].leaked = @ + 1] ELSE us

Listed == {items[i] : i \in 1..Len(items)}

IndexOf(id) == CHOOSE i \in 1..Len(items) : items[i] = id

hasQueued == \E id \in Listed : it[id].status \in {"queued", "error"}

hasDone == \E id \in Listed : it[id].status = "done" /\ it[id].outputBlob # NoBlob

\* ------------------------------------------------- the comparison view
Mounted == Len(views) > 0 /\ views[Len(views)].mounted

\* Both $effect blocks run (on mount, and again when originalFile or quality
\* changed): the first sets originalUrl and isLoading and starts a conversion,
\* the second starts another conversion.
RunEffects(vs, n, sel, q, us) ==
  /\ UrlsCreated(us) < MaxUrls
  /\ Len(previews) + 2 <= MaxPreviewInFlight
  /\ urls' = Created(Dropped(us, "original", vs[n].originalUrl), "original")
  /\ views' = [vs EXCEPT ![n].originalUrl = FreshUrl, ![n].isLoading = TRUE]
  /\ previews' = previews \o << [inst |-> n, eff |-> 1, item |-> sel, q |-> q],
                               [inst |-> n, eff |-> 2, item |-> sel, q |-> q] >>

NewView == [mounted |-> TRUE, originalUrl |-> NoUrl, webpUrl |-> NoUrl,
            webpSize |-> 0, isLoading |-> TRUE]

\* What Svelte does after a task that left selectedPreviewItem = selNew and
\* quality = qNew, with us the object URLs as the task left them.
ViewReact(selNew, qNew, us) ==
  IF ~Mounted
  THEN IF selNew = NoItem
       THEN /\ urls' = us
            /\ UNCHANGED <<views, previews>>
       ELSE \* {#if selectedPreviewItem}: a new instance is mounted
            /\ Len(views) < MaxViews
            /\ RunEffects(Append(views, NewView), Len(views) + 1, selNew, qNew, us)
  ELSE IF selNew = NoItem
       THEN \* the cleanup returned by onMount
            /\ urls' = Revoked(Revoked(us, "original", views[Len(views)].originalUrl),
                               "webp", views[Len(views)].webpUrl)
            /\ views' = [views EXCEPT ![Len(views)].mounted = FALSE,
                                      ![Len(views)].originalUrl = RevokeIfSet(@),
                                      ![Len(views)].webpUrl = RevokeIfSet(@)]
            /\ UNCHANGED previews
       ELSE IF selNew # selectedPreviewItem \/ qNew # quality
            THEN RunEffects(views, Len(views), selNew, qNew, us)
            ELSE /\ urls' = us
                 /\ UNCHANGED <<views, previews>>

\* ------------------------------------------------------------ handleFiles
Accepted(f) == FileTable[f].type \in acceptedTypes

NewItem(f) ==
  IF Accepted(f)
  THEN [file |-> f, status |-> "queued", errorMessage |-> NoMessage,
        outputUrl |-> NoUrl, outputBlob |-> NoBlob, outputName |-> NoName,
        sizeBefore |-> FileTable[f].size, sizeAfter |-> 0, thumbnailUrl |-> FreshUrl]
  ELSE [file |-> f, status |-> "error", errorMessage |-> UnsupportedMessage,
        outputUrl |-> NoUrl, outputBlob |-> NoBlob, outputName |-> NoName,
        sizeBefore |-> FileTable[f].size, sizeAfter |-> 0, thumbnailUrl |-> NoUrl]

handleFiles(fileList) ==
  LET n == Len(fileList)
      newIds == [k \in 1..n |-> Len(it) + k]
      nAcc == Cardinality({k \in 1..n : Accepted(fileList[k])})
  IN /\ Len(it) + n <= MaxItems
     /\ UrlsCreated(urls) + nAcc <= MaxUrls
     /\ it' = it \o [k \in 1..n |-> NewItem(fileList[k])]
     /\ urls' = [urls EXCEPT !["thumbnail"].created = @ + nAcc]
     /\ items' = items \o newIds
     /\ autoSelect' = IF selectedPreviewItem = NoItem /\ n > 0
                      THEN Append(autoSelect, newIds)
                      ELSE autoSelect
     /\ lastOp' = Other
     /\ UNCHANGED <<quality, selectedPreviewItem, previewUpdateTimeout, invs, views,
                    previews, zips, downloads, anchors, everConverted>>
     /\ UNCHANGED apart

\* newItems.find((item) => item.status !== 'error'), NoItem when there is none
FirstNonError(ids, itm) ==
  LET ok == {k \in 1..Len(ids) : itm[ids[k]].status # "error"}
  IN IF ok = {} THEN NoItem ELSE ids[CHOOSE k \in ok : \A j \in ok : k <= j]

\* The callback of the 100 ms timer handleFiles sets.
autoSelectTimer ==
  /\ autoSelect # << >>
  /\ LET firstValid == FirstNonError(Head(autoSelect), it)
         sel == IF selectedPreviewItem = NoItem /\ firstValid # NoItem
                THEN firstValid
                ELSE selectedPreviewItem
     IN /\ selectedPreviewItem' = sel
        /\ ViewReact(sel, quality, urls)
  /\ autoSelect' = Tail(autoSelect)
  /\ lastOp' = Other
  /\ UNCHANGED <<items, it, quality, previewUpdateTimeout, invs, zips, downloads,
                 anchors, everConverted>>
  /\ UNCHANGED apart

\* -------------------------------------------------------------- convertAll
\* The outcomes of one call of convertImageToWebP.
Outcomes == {[ok |-> TRUE, message |-> NoMessage]}
            \cup {[ok |-> FALSE, message |-> m] : m \in ConverterErrors}

\* Mutant of Skipped: only items being converted are skipped.
SkippedConvertingOnly(status) == status = "converting"

\* `if (item.status !== 'queued' && item.status !== 'error') continue;`
Skipped(status) == status # "queued" /\ status # "error"

\* for (const item of items): the array iterator reads items[idx] while idx is
\* within the array's current length. The position of the first item from idx on
\* that the loop does not skip, 0 when the loop runs off the end.
LoopStop(idx, itm) ==
  LET stops == {p \in idx..Len(items) : ~Skipped(itm[items[p]].status)}
  IN IF stops = {} THEN 0 ELSE CHOOSE p \in stops : \A r \in stops : p <= r

\* The items the loop reads from idx until it suspends or ends.
LoopReached(idx, itm) ==
  LET p == LoopStop(idx, itm)
  IN {items[r] : r \in idx..(IF p = 0 THEN Len(items) ELSE p)}

\* Mutant of StartConversion: the item is marked 'done' before it is converted.
StartConversionAsDone(itm, id) == [itm EXCEPT ![id].status = "done"]

\* The loop body up to the await: item.status = 'converting' and the call.
StartConversion(itm, id) == [itm EXCEPT ![id].status = "converting"]

\* The loop from position idx: up to its next await, or to its end. `through`
\* is the set of items listed ever since the invocation began; `others` are the
\* other suspended invocations; `slot` is the number the invocation is known by.
RunLoop(idx, itm, through, others, name, slot) ==
  LET p == LoopStop(idx, itm)
  IN /\ lastOp' = Op(name, IF p = 0 THEN NoItem ELSE items[p], NoItem,
                     LoopReached(idx, itm), IF p = 0 THEN through ELSE {})
     /\ IF p = 0
        THEN /\ it' = itm
             /\ invs' = others
             /\ UNCHANGED everConverted
        ELSE /\ it' = StartConversion(itm, items[p])
             /\ invs' = others \cup {[idx |-> p + 1, cur |-> items[p], q |-> quality,
                                      through |-> through, slot |-> slot]}
             /\ everConverted' = everConverted \cup {items[p]}

\* The number a new invocation is known by: the least one no suspended
\* invocation has.
FreeSlot ==
  LET free == {n \in 1..(Cardinality(invs) + 1) : \A inv \in invs : inv.slot # n}
  IN CHOOSE n \in free : \A m \in free : n <= m

\* A click on "Convert all".
convertAll ==
  /\ Cardinality(invs) < MaxInvocations
  /\ RunLoop(1, it, Listed, invs, "convertAll", FreeSlot)
  /\ UNCHANGED <<items, quality, selectedPreviewItem, previewUpdateTimeout, autoSelect,
                 urls, views, previews, zips, downloads, anchors>>
  /\ UNCHANGED apart

\* Mutant of ConversionDone: the try block forgets item.status.
ConversionDoneStaysConverting(itm, id, blob) ==
  [itm EXCEPT ![id].outputBlob = blob,
              ![id].outputUrl = FreshUrl,
              ![id].outputName = OutputName(FileTable[itm[id].file].name),
              ![id].sizeAfter = BlobSize(blob)]

\* Mutant of ConversionDone: the try block forgets item.outputName.
ConversionDoneNoName(itm, id, blob) ==
  [itm EXCEPT ![id].outputBlob = blob,
              ![id].outputUrl = FreshUrl,
              ![id].sizeAfter = BlobSize(blob),
              ![id].status = "done"]

\* The try block after the await.
ConversionDone(itm, id, blob) ==
  [itm EXCEPT ![id].outputBlob = blob,
              ![id].outputUrl = FreshUrl,
              ![id].outputName = OutputName(FileTable[itm[id].file].name),
              ![id].sizeAfter = BlobSize(blob),
              ![id].status = "done"]

\* The tally after `item.outputUrl = url` over the outputUrl old.
ConversionUrls(us, old) == Created(Dropped(us, "output", old), "output")

\* Mutant of ConversionFailed: the failure is recorded but the item is left
\* 'converting'.
ConversionFailedStaysConverting(itm, id, message) ==
  [itm EXCEPT ![id].errorMessage = message]

\* Mutant of ConversionFailed: the catch block forgets the message.
ConversionFailedNoMessage(itm, id, message) == [itm EXCEPT ![id].status = "error"]

\* The catch block.
ConversionFailed(itm, id, message) ==
  [itm EXCEPT ![id].status = "error", ![id].errorMessage = message]

\* The awaited convertImageToWebP of invocation inv settles; the loop goes on.
convertAllResume(inv, outcome) ==
  /\ inv \in invs
  /\ outcome \in Outcomes
  /\ IF outcome.ok
     THEN /\ UrlsCreated(urls) < MaxUrls
          /\ urls' = ConversionUrls(urls, it[inv.cur].outputUrl)
          /\ RunLoop(inv.idx,
                     ConversionDone(it, inv.cur, ConvertedBlob(it[inv.cur].file, inv.q)),
                     inv.through, invs \ {inv}, "convertAllResume", inv.slot)
     ELSE /\ urls' = urls
          /\ RunLoop(inv.idx, ConversionFailed(it, inv.cur, outcome.message),
                     inv.through, invs \ {inv}, "convertAllCatch", inv.slot)
  /\ UNCHANGED <<items, quality, selectedPreviewItem, previewUpdateTimeout, autoSelect,
                 views, previews, zips, downloads, anchors>>
  /\ UNCHANGED apart

\* ---------------------------------------------------- the preview callback
\* The outputUrl of the previewed item after the callback's
\* `if (outputBlob && outputUrl) URL.revokeObjectURL(outputUrl)`.
CallbackRevoke(item) ==
  IF item.outputBlob # NoBlob THEN RevokeIfSet(item.outputUrl) ELSE item.outputUrl

\* onWebPGenerated={(blob, size) => ...} of the page: the items after it.
CallbackItems(itm, blob) ==
  IF selectedPreviewItem = NoItem
  THEN itm
  ELSE [itm EXCEPT ![selectedPreviewItem].sizeAfter = BlobSize(blob),
                   ![selectedPreviewItem].outputBlob = blob,
                   ![selectedPreviewItem].outputUrl = FreshUrl,
                   ![selectedPreviewItem].outputName =
                       OutputName(FileTable[itm[selectedPreviewItem].file].name)]

\* onWebPGenerated: the tally after it.
CallbackUrls(itm, us) ==
  IF selectedPreviewItem = NoItem
  THEN us
  ELSE LET item == itm[selectedPreviewItem]
       IN Created(Dropped(IF item.outputBlob # NoBlob
                          THEN Revoked(us, "output", item.outputUrl)
                          ELSE us,
                          "output", CallbackRevoke(item)),
                  "output")

\* webpUrl before `webpUrl = URL.createObjectURL(webpBlob)`: the second effect
\* revokes the webpUrl it replaces, the first does not.
BeforeWebpUrl(eff, v) == IF eff = 2 THEN RevokeIfSet(v.webpUrl) ELSE v.webpUrl

\* The tally after an effect's conversion resolved and it set webpUrl.
WebpUrls(eff, v, us) ==
  Created(Dropped(IF eff = 2 THEN Revoked(us, "webp", v.webpUrl) ELSE us,
                  "webp", BeforeWebpUrl(eff, v)),
          "webp")

\* Mutant of SettledBlob: the result is that of the file and quality of now.
SettledBlobCurrent(p) ==
  ConvertedBlob(it[IF selectedPreviewItem = NoItem THEN p.item ELSE selectedPreviewItem].file,
                quality)

\* What `await convertImageToWebP(originalFile, quality)` resolves with: the
\* conversion of the file and quality the effect read when it made the call.
SettledBlob(p) == ConvertedBlob(it[p.item].file, p.q)

\* A conversion started by an effect of a view settles.
previewSettles(i, outcome) ==
  /\ i \in 1..Len(previews)
  /\ outcome \in Outcomes
  /\ LET p == previews[i]
         v == views[p.inst]
         blob == SettledBlob(p)
     IN IF outcome.ok
        THEN /\ UrlsCreated(urls) + (IF selectedPreviewItem = NoItem THEN 1 ELSE 2)
                  <= MaxUrls
             /\ views' = [views EXCEPT ![p.inst].webpUrl = FreshUrl,
                                       ![p.inst].webpSize = BlobSize(blob),
                                       ![p.inst].isLoading =
                                           IF p.eff = 1 THEN FALSE ELSE @]
             /\ it' = CallbackItems(it, blob)
             /\ urls' = CallbackUrls(it, WebpUrls(p.eff, v, urls))
        ELSE /\ views' = [views EXCEPT ![p.inst].isLoading =
                                           IF p.eff = 1 THEN FALSE ELSE @]
             /\ UNCHANGED <<it, urls>>
  /\ previews' = SubSeq(previews, 1, i - 1) \o SubSeq(previews, i + 1, Len(previews))
  /\ lastOp' = Other
  /\ UNCHANGED <<items, quality, selectedPreviewItem, previewUpdateTimeout, autoSelect,
                 invs, zips, downloads, anchors, everConverted>>
  /\ UNCHANGED apart

\* ------------------------------------------------- deleteItem and clearAll
RemoveAt(seq, i) == SubSeq(seq, 1, i - 1) \o SubSeq(seq, i + 1, Len(seq))

\* Mutant of SelectionAfterDelete: the first remaining item, whatever its status.
SelectionFirstRemaining(id) ==
  IF selectedPreviewItem # NoItem /\ selectedPreviewItem = id
  THEN IF Len(items) = 1 THEN NoItem ELSE RemoveAt(items, IndexOf(id))[1]
  ELSE selectedPreviewItem

\* The selection deleteItem(id) leaves.
SelectionAfterDelete(id) ==
  IF selectedPreviewItem # NoItem /\ selectedPreviewItem = id
  THEN FirstNonError(RemoveAt(items, IndexOf(id)), it)
  ELSE selectedPreviewItem

\* A click on the Delete button of a listed item.
deleteItem(id) ==
  /\ id \in Listed
  /\ items' = RemoveAt(items, IndexOf(id))
  /\ selectedPreviewItem' = SelectionAfterDelete(id)
  /\ it' = [it EXCEPT ![id].outputUrl = RevokeIfSet(@),
                       ![id].thumbnailUrl = RevokeIfSet(@)]
  /\ ViewReact(SelectionAfterDelete(id), quality,
               Revoked(Revoked(urls, "output", it[id].outputUrl),
                       "thumbnail", it[id].thumbnailUrl))
  /\ invs' = {[inv EXCEPT !.through = @ \ {id}] : inv \in invs}
  /\ lastOp' = Op("deleteItem", id, selectedPreviewItem, {}, {})
  /\ UNCHANGED <<quality, previewUpdateTimeout, autoSelect, zips, downloads,
                 anchors, everConverted>>
  /\ UNCHANGED apart

\* The tally after the revokes of clearAll's loop over the items from position
\* i on.
RECURSIVE ClearUrls(_, _)
ClearUrls(us, i) ==
  IF i > Len(items)
  THEN us
  ELSE ClearUrls(Revoked(Revoked(us, "output", it[items[i]].outputUrl),
                         "thumbnail", it[items[i]].thumbnailUrl),
                 i + 1)

\* The items after clearAll's loop.
ClearItems ==
  [id \in 1..Len(it) |->
     IF id \in Listed
     THEN [it[id] EXCEPT !.outputUrl = RevokeIfSet(@), !.thumbnailUrl = RevokeIfSet(@)]
     ELSE it[id]]

\* A click on "Clear list".
clearAll ==
  /\ items' = << >>
  /\ selectedPreviewItem' = NoItem
  /\ ViewReact(NoItem, quality, ClearUrls(urls, 1))
  /\ invs' = {[inv EXCEPT !.through = {}] : inv \in invs}
  /\ it' = ClearItems
  /\ lastOp' = Op("clearAll", NoItem, NoItem, {}, {})
  /\ UNCHANGED <<quality, previewUpdateTimeout, autoSelect, zips, downloads,
                 anchors, everConverted>>
  /\ UNCHANGED apart

\* ------------------------------------------------ quality and preview clicks
\* bind:value={quality} on the slider.
setQuality(q) ==
  /\ q \in Qualities
  /\ q # quality
  /\ quality' = q
  /\ ViewReact(selectedPreviewItem, q, urls)
  /\ lastOp' = Other
  /\ UNCHANGED <<items, it, selectedPreviewItem, previewUpdateTimeout, autoSelect, invs,
                 zips, downloads, anchors, everConverted>>
  /\ UNCHANGED apart

\* A click on the thumbnail of a listed item:
\* updatePreviewItemDebounced(item.status !== 'error' ? item : null).
updatePreviewItemDebounced(id) ==
  /\ id \in Listed
  /\ previewUpdateTimeout' =
       [set |-> TRUE, item |-> IF it[id].status # "error" THEN id ELSE NoItem]
  /\ lastOp' = Other
  /\ UNCHANGED <<items, it, quality, selectedPreviewItem, autoSelect, invs, urls, views,
                 previews, zips, downloads, anchors, everConverted>>
  /\ UNCHANGED apart

\* The callback of the 150 ms debounce timer.
previewTimer ==
  /\ previewUpdateTimeout.set
  /\ selectedPreviewItem' = previewUpdateTimeout.item
  /\ previewUpdateTimeout' = NoTimer
  /\ ViewReact(previewUpdateTimeout.item, quality, urls)
  /\ lastOp' = Other
  /\ UNCHANGED <<items, it, quality, autoSelect, invs, zips, downloads, anchors,
                 everConverted>>
  /\ UNCHANGED apart

\* ---------------------------------------------------------- downloadAllZip
\* JSZip's zip.file(name, data): one entry per name, a later one replaces it.
ZipFile(zip, name, blob) ==
  {e \in zip : e.name # name} \cup {[name |-> name, blob |-> blob]}

\* item.outputName ?? item.file.name.replace(/\.(jpe?g|png)$/i, '') + '.webp'
EntryName(item) ==
  IF item.outputName # NoName THEN item.outputName
  ELSE OutputName(FileTable[item.file].name)

\* The loop of downloadAllZip over the items from position i on.
RECURSIVE ZipLoop(_, _)
ZipLoop(z, i) ==
  IF i > Len(items)
  THEN z
  ELSE LET item == it[items[i]]
       IN IF item.status = "done" /\ item.outputBlob # NoBlob
          THEN ZipLoop([zip |-> ZipFile(z.zip, EntryName(item), item.outputBlob),
                        added |-> z.added + 1], i + 1)
          ELSE ZipLoop(z, i + 1)

\* Mutant of NothingAdded: the early return is missing.
NothingAddedIgnored(z) == FALSE

\* `if (added === 0) return;`
NothingAdded(z) == z.added = 0

\* downloadAllZip up to its await of zip.generateAsync.
downloadAllZip ==
  /\ Len(zips) + Len(downloads) < MaxZips
  /\ LET z == ZipLoop([zip |-> {}, added |-> 0], 1)
     IN /\ zips' = IF NothingAdded(z) THEN zips ELSE Append(zips, z)
        /\ lastOp' = Op("downloadAllZip", NoItem, NoItem, {}, {})
  /\ UNCHANGED <<items, it, quality, selectedPreviewItem, previewUpdateTimeout,
                 autoSelect, invs, urls, views, previews, downloads, anchors,
                 everConverted>>
  /\ UNCHANGED apart

\* generateAsync resolves: downloadBlob(blob, 'converted-webp.zip').
zipGenerated ==
  /\ zips # << >>
  /\ zips' = Tail(zips)
  /\ downloads' = Append(downloads, Head(zips))
  /\ anchors' = anchors + 1
  /\ lastOp' = Other
  /\ UNCHANGED <<items, it, quality, selectedPreviewItem, previewUpdateTimeout,
                 autoSelect, invs, urls, views, previews, everConverted>>
  /\ UNCHANGED apart

\* setTimeout(() => URL.revokeObjectURL(a.href), 1000) of downloadBlob.
anchorTimer ==
  /\ anchors > 0
  /\ anchors' = anchors - 1
  /\ lastOp' = Other
  /\ UNCHANGED <<items, it, quality, selectedPreviewItem, previewUpdateTimeout,
                 autoSelect, invs, urls, views, previews, zips, downloads,
                 everConverted>>
  /\ UNCHANGED apart

\* ------------------------------------------------------ convertImageToWebP
\* One call at a time is followed from its entry to its exit: pc is the await
\* it is suspended at, bitmap the ImageBitmap of the preferred path ("none",
\* "open" or "closed"), src the object URL of the Image element of the
\* secondary path, outcome what the returned promise settled with.

Threw(c, message) ==
  [c EXCEPT !.pc = "exit", !.outcome = [ok |-> FALSE, message |-> message]]

\* From canvas.getContext('2d') to the await of canvas.toBlob.
ToCanvas(c, ctx) ==
  IF ctx THEN [c EXCEPT !.pc = "toBlob"] ELSE Threw(c, "Canvas not supported")

\* convertImageToWebP(file, quality) up to `await createImageBitmap(file)`.
convertImageToWebP(f, q) ==
  /\ conv.pc \in {"none", "exit"}
  /\ conv.n < MaxCalls
  /\ conv' = [NoCall EXCEPT !.n = conv.n + 1, !.pc = "createImageBitmap",
                            !.file = f, !.q = q]
  /\ UNCHANGED <<page, gest, naming>>

\* createImageBitmap(file).catch(() => null) settles: with a bitmap the
\* preferred path runs to its toBlob, with null the secondary path runs to
\* `await img.decode()`.
createImageBitmapSettles(decoded, ctx) ==
  /\ conv.pc = "createImageBitmap"
  /\ conv' = IF decoded
             THEN ToCanvas([conv EXCEPT !.bitmap = "open"], ctx)
             ELSE [conv EXCEPT !.src = FreshUrl, !.pc = "decode"]
  /\ UNCHANGED <<page, gest, naming>>

\* img.decode() settles.
decodeSettles(decoded, ctx) ==
  /\ conv.pc = "decode"
  /\ conv' = IF decoded THEN ToCanvas(conv, ctx) ELSE Threw(conv, DecodeMessage)
  /\ UNCHANGED <<page, gest, naming>>

\* The clean-up before `return blob`: bitmap.close() on the preferred path,
\* URL.revokeObjectURL(img.src) on the secondary one.
CleanUp(c) ==
  IF c.bitmap = "open"
  THEN [c EXCEPT !.bitmap = "closed"]
  ELSE [c EXCEPT !.src = RevokeIfSet(@)]

\* The callback of canvas.toBlob runs with a blob or with null.
toBlobSettles(exported) ==
  /\ conv.pc = "toBlob"
  /\ conv' = IF exported
             THEN [CleanUp(conv) EXCEPT !.pc = "exit",
                                        !.outcome = [ok |-> TRUE, message |-> NoMessage]]
             ELSE Threw(conv, "Blob conversion failed")
  /\ UNCHANGED <<page, gest, naming>>

\* ------------------------------------------------ zoom, pan and divider
\* The view is on display (containerRef is bound). Pointer positions are
\* clientX and clientY in pixels; the container spans ContainerWidth pixels
\* from ContainerLeft.
ContainerLeft == 0
ContainerWidth == 200
Xs == {0, 20, 200}
Ys == {0, 20}

Min(a, b) == IF a <= b THEN a ELSE b
Max(a, b) == IF a >= b THEN a ELSE b

\* scale * 1.1 and scale * 0.9 (tenths is 11 or 9), rounded to the nearest
\* millionth as the product of doubles is rounded to the nearest double. Over
\* MaxZooms steps from 1 the millionths compare to 0.5, 1, 3 and to the scale
\* before as the doubles do.
Times(scale, tenths) == (scale * tenths + 5) \div 10

\* Mutant of updateDividerPosition: the percentage is not clamped.
updateDividerPositionUnclamped(g, x) ==
  [g EXCEPT !.dividerPosition = ((x - ContainerLeft) * 100) \div ContainerWidth]

\* updateDividerPosition(event)
updateDividerPosition(g, x) ==
  [g EXCEPT !.dividerPosition =
      Max(5, Min(95, ((x - ContainerLeft) * 100) \div ContainerWidth))]

\* mousedown on the divider
handleMouseDown(x) ==
  /\ gest' = updateDividerPosition([gest EXCEPT !.isDragging = TRUE], x)
  /\ UNCHANGED <<page, conv, naming>>

\* The document's mousemove listener of the divider drag.
handleMouseMove(g, x) == IF ~g.isDragging THEN g ELSE updateDividerPosition(g, x)

\* The document's mousemove listener of the image drag.
handleImageMouseMove(g, x, y) ==
  IF ~g.isPanning
  THEN g
  ELSE [g EXCEPT !.panX = @ + (x - g.lastPanX), !.panY = @ + (y - g.lastPanY),
                 !.lastPanX = x, !.lastPanY = y]

InPanBounds(g) == g.panX \in -MaxPan..MaxPan /\ g.panY \in -MaxPan..MaxPan

\* A mousemove event reaches the document: the listeners the two mousedown
\* handlers registered run (each returns at once unless its drag is active).
mouseMove(x, y) ==
  /\ gest' = handleImageMouseMove(handleMouseMove(gest, x), x, y)
  /\ InPanBounds(gest')
  /\ UNCHANGED <<page, conv, naming>>

\* A mouseup event reaches the document: handleMouseUp and handleImageMouseUp.
mouseUp ==
  /\ gest' = [gest EXCEPT !.isDragging = FALSE, !.isPanning = FALSE]
  /\ UNCHANGED <<page, conv, naming>>

\* mousedown on the image (not on the divider)
handleImageMouseDown(x, y) ==
  /\ gest' = IF gest.scale <= Unit
             THEN [gest EXCEPT !.hasInteracted = TRUE]
             ELSE [gest EXCEPT !.hasInteracted = TRUE, !.isPanning = TRUE,
                               !.lastPanX = x, !.lastPanY = y]
  /\ UNCHANGED <<page, conv, naming>>

\* Reset pan when zooming out to 1x: `if (scale === 1) { panX = 0; panY = 0; }`
PanResetAtOne(g) == IF g.scale = Unit THEN [g EXCEPT !.panX = 0, !.panY = 0] ELSE g

\* Mutant of Zoomed: the wheel's new scale has no upper limit.
ZoomedUnlimited(scale, tenths) == Max(MinScale, Times(scale, tenths))

\* Math.max(0.5, Math.min(3, scale * scaleFactor))
Zoomed(scale, tenths) == Max(MinScale, Min(MaxScale, Times(scale, tenths)))

\* A wheel event over the container; modifier: ctrlKey, metaKey or altKey.
handleWheel(modifier, deltaY) ==
  /\ modifier => gest.zooms < MaxZooms
  /\ gest' =
       IF modifier
       THEN LET newScale == Zoomed(gest.scale, IF -deltaY > 0 THEN 11 ELSE 9)
                g == [gest EXCEPT !.hasInteracted = TRUE, !.zooms = @ + 1]
            IN IF newScale # gest.scale
               THEN PanResetAtOne([g EXCEPT !.scale = newScale])
               ELSE g
       ELSE gest
  /\ UNCHANGED <<page, conv, naming>>

resetZoom(g) == [g EXCEPT !.scale = Unit, !.panX = 0, !.panY = 0, !.zooms = 0]

AtRest(g) == g.scale = Unit /\ g.panX = 0 /\ g.panY = 0

\* A click on the Reset button (disabled while nothing is zoomed or panned).
resetClick ==
  /\ ~AtRest(gest)
  /\ gest' = resetZoom(gest)
  /\ UNCHANGED <<page, conv, naming>>

Keys == {"Enter", " ", "+", "=", "-", "ArrowLeft", "ArrowRight", "ArrowUp", "ArrowDown"}

\* The switch of handleKeyDown.
KeySwitch(g, key) ==
  CASE key \in {"Enter", " "} -> resetZoom(g)
    [] key \in {"+", "="} -> [g EXCEPT !.scale = Min(MaxScale, Times(g.scale, 11))]
    [] key = "-" -> PanResetAtOne([g EXCEPT !.scale = Max(MinScale, Times(g.scale, 9))])
    [] key = "ArrowLeft" -> IF g.scale > Unit THEN [g EXCEPT !.panX = @ + 20] ELSE g
    [] key = "ArrowRight" -> IF g.scale > Unit THEN [g EXCEPT !.panX = @ - 20] ELSE g
    [] key = "ArrowUp" -> IF g.scale > Unit THEN [g EXCEPT !.panY = @ + 20] ELSE g
    [] key = "ArrowDown" -> IF g.scale > Unit THEN [g EXCEPT !.panY = @ - 20] ELSE g
    [] OTHER -> g

\* keydown on the container or inside it.
handleKeyDown(key) ==
  /\ key \in {"+", "=", "-"} => gest.zooms < MaxZooms
  /\ gest' = [KeySwitch([gest EXCEPT !.hasInteracted = TRUE], key)
                EXCEPT !.zooms = IF key \in {"+", "=", "-"} THEN @ + 1 ELSE @]
  /\ InPanBounds(gest')
  /\ UNCHANGED <<page, conv, naming>>

\* keydown elsewhere in the document; formTarget: the target is an input, a
\* textarea, a button or editable.
handleGlobalKeyDown(key, formTarget) ==
  /\ gest' = IF key = "Enter" /\ gest.hasInteracted /\ ~AtRest(gest) /\ ~formTarget
             THEN resetZoom(gest)
             ELSE gest
  /\ UNCHANGED <<page, conv, naming>>

\* ------------------------------------------------------- the output name
\* File names are put together from up to MaxParts of these parts.
Parts ==
  { <<"a">>, <<".">>, <<"g">>, <<"x">>,
    <<".", "j", "p">>, <<"j", "p", "g">>,
    <<".", "j", "p", "g">>, <<".", "J", "P", "G">>,
    <<".", "j", "p", "e", "g">>, <<".", "J", "p", "e", "G">>,
    <<".", "p", "n", "g">>, <<".", "P", "N", "G">>,
    <<".", "w", "e", "b", "p">> }

RECURSIVE NamesOf(_)
NamesOf(n) ==
  IF n = 0
  THEN {<< >>}
  ELSE NamesOf(n - 1) \cup {x \o part : x \in NamesOf(n - 1), part \in Parts}

FileNames == NamesOf(MaxParts)

\* item.file.name.replace(/\.(jpe?g|png)$/i, '') + '.webp' for a file of this
\* name, as convertAll, the preview callback and downloadAllZip compute it.
deriveName(name) ==
  /\ naming.out = NoName
  /\ naming' = [name |-> name, out |-> OutputName(name)]
  /\ UNCHANGED <<page, conv, gest>>

\* ------------------------------------------------------------ specification
\* The FileLists a selection or a drop delivers.
FileLists == UNION {[1..n -> FileIds] : n \in 1..MaxDrop}

\* The upload queue before its preview timers fire (no view is mounted), at the
\* quality the slider starts with.
Next ==
  \/ \E fileList \in FileLists : handleFiles(fileList)
  \/ convertAll
  \/ \E inv \in invs, outcome \in Outcomes : convertAllResume(inv, outcome)
  \/ \E id \in Listed : deleteItem(id)
  \/ clearAll
  \/ downloadAllZip
  \/ zipGenerated
  \/ anchorTimer

Spec == Init /\ [][Next]_vars

\* The awaited convertImageToWebP of the invocation known by slot settles.
Settles(slot) ==
  \E inv \in invs, outcome \in Outcomes : inv.slot = slot /\ convertAllResume(inv, outcome)

\* The batch while items are added, deleted and cleared.
NextLive ==
  \/ \E fileList \in FileLists : handleFiles(fileList)
  \/ convertAll
  \/ \E inv \in invs, outcome \in Outcomes : convertAllResume(inv, outcome)
  \/ \E id \in Listed : deleteItem(id)
  \/ clearAll

\* The batch when every call of convertImageToWebP made by convertAll settles
\* in the end.
SpecLive ==
  Init /\ [][NextLive]_vars /\ \A slot \in 1..MaxInvocations : WF_vars(Settles(slot))

\* The upload queue with its preview: the auto-select timers fire, the view is
\* mounted and its conversions settle. One convertAll invocation runs at a
\* time, and a conversion either resolves or fails at the export.
PreviewOutcomes == {o \in Outcomes : o.ok \/ o.message = "Blob conversion failed"}

NextPreview ==
  \/ \E fileList \in FileLists : handleFiles(fileList)
  \/ autoSelectTimer
  \/ \E i \in 1..Len(previews), outcome \in PreviewOutcomes : previewSettles(i, outcome)
  \/ invs = {} /\ convertAll
  \/ \E inv \in invs, outcome \in PreviewOutcomes : convertAllResume(inv, outcome)
  \/ \E id \in Listed : deleteItem(id)
  \/ clearAll

SpecPreview == Init /\ [][NextPreview]_vars

\* The preview while the slider moves: the view is mounted by the auto-select
\* timer and its conversions settle in any order.
NextQuality ==
  \/ \E fileList \in FileLists : handleFiles(fileList)
  \/ autoSelectTimer
  \/ \E q \in Qualities : setQuality(q)
  \/ \E i \in 1..Len(previews), outcome \in PreviewOutcomes : previewSettles(i, outcome)

SpecQuality == Init /\ [][NextQuality]_vars

\* convertImageToWebP on its own, called for any file at any quality.
NextConverter ==
  \/ \E f \in FileIds, q \in Qualities : convertImageToWebP(f, q)
  \/ \E decoded \in BOOLEAN, ctx \in BOOLEAN : createImageBitmapSettles(decoded, ctx)
  \/ \E decoded \in BOOLEAN, ctx \in BOOLEAN : decodeSettles(decoded, ctx)
  \/ \E exported \in BOOLEAN : toBlobSettles(exported)

SpecConverter == Init /\ [][NextConverter]_vars

\* The gestures on a view on display.
NextView ==
  \/ \E x \in Xs : handleMouseDown(x)
  \/ \E x \in Xs, y \in Ys : mouseMove(x, y)
  \/ mouseUp
  \/ \E x \in Xs, y \in Ys : handleImageMouseDown(x, y)
  \/ \E modifier \in BOOLEAN, deltaY \in {-100, 0, 100} : handleWheel(modifier, deltaY)
  \/ resetClick
  \/ \E key \in Keys : handleKeyDown(key)
  \/ \E key \in {"Enter", "a"}, formTarget \in BOOLEAN : handleGlobalKeyDown(key, formTarget)

SpecView == Init /\ [][NextView]_vars

\* The output name on its own, for any file name.
NextName == \E name \in FileNames : deriveName(name)

SpecName == Init /\ [][NextName]_vars

\* =============================================================== properties
AllItems == 1..Len(it)

Rejected(id) == ~Accepted(it[id].file)

LoopRan == lastOp.op \in {"convertAll", "convertAllResume", "convertAllCatch"}

\* C1: an item made from a file that is neither JPEG nor PNG is an 'error' item
\* with a message, and convertImageToWebP is never called for it, whatever is
\* done later, convertAll included.
C1_RejectedNeverConverted ==
  \A id \in AllItems :
    Rejected(id) => /\ id \notin everConverted
                    /\ it[id].status = "error"
                    /\ it[id].errorMessage # NoMessage

\* C3: every item whose status is 'error' has a non-empty error message, be it
\* rejected by handleFiles or failed in convertAll.
C3_ErrorHasMessage ==
  \A id \in AllItems : it[id].status = "error" => it[id].errorMessage # NoMessage

\* A rejected item and an item whose conversion failed, both listed as 'error'.
C3_Witness ==
  /\ \E id \in Listed : /\ Rejected(id)
                        /\ it[id].status = "error"
                        /\ it[id].errorMessage = UnsupportedMessage
  /\ \E id \in Listed : /\ ~Rejected(id)
                        /\ it[id].status = "error"
                        /\ it[id].errorMessage \in ConverterErrors

\* C7: downloadAllZip with no 'done' item that has an output blob generates no
\* archive, triggers no download and leaves the items and the selection alone.
C7_NoArchiveWithoutDone ==
  [][(lastOp'.op = "downloadAllZip" /\ ~hasDone) =>
       /\ zips' = zips
       /\ downloads' = downloads
       /\ anchors' = anchors
       /\ items' = items
       /\ it' = it
       /\ selectedPreviewItem' = selectedPreviewItem]_vars

\* downloadAllZip has just run over a list that is not empty and has no 'done' item.
C7_Witness ==
  /\ lastOp.op = "downloadAllZip"
  /\ Listed # {}
  /\ ~hasDone
  /\ zips = << >>
  /\ downloads = << >>

DoneItems == {id \in Listed : it[id].status = "done"}

\* C8: the archive downloadAllZip builds has exactly one entry per 'done' item,
\* each under that item's output name, also when two items derive the same name.
C8_OneEntryPerDone ==
  (lastOp.op = "downloadAllZip" /\ hasDone) =>
    /\ zips # << >>
    /\ Cardinality(zips[Len(zips)].zip) = Cardinality(DoneItems)
    /\ \A id \in DoneItems :
         [name |-> it[id].outputName, blob |-> it[id].outputBlob] \in zips[Len(zips)].zip

\* C9: when a convertAll invocation ends, no item that was listed all through it
\* is still 'queued', also when deleteItem or handleFiles ran at its awaits.
C9_NoQueuedLeft ==
  (LoopRan /\ lastOp.id = NoItem) =>
    \A id \in lastOp.through : it[id].status # "queued"

\* C10: the loop of convertAll leaves an item it reaches as 'converting' or
\* 'done' untouched and starts no conversion for it; an item it reaches as
\* 'error' is converted again.
C10_DoneUntouchedErrorRetried ==
  [][LoopRan' =>
       \A id \in lastOp'.reached :
         /\ it[id].status \in {"converting", "done"} =>
              /\ it'[id] = it[id]
              /\ \A inv \in invs' \ invs : inv.cur # id
         /\ it[id].status = "error" =>
              /\ it'[id].status = "converting"
              /\ \E inv \in invs' \ invs : inv.cur = id]_vars

\* The loop has just passed a 'done' item and started again on an item whose
\* earlier conversion had failed.
C10_Witness ==
  /\ LoopRan
  /\ \E id \in lastOp.reached : it[id].status = "done"
  /\ lastOp.id # NoItem
  /\ it[lastOp.id].status = "converting"
  /\ it[lastOp.id].errorMessage \in ConverterErrors

\* C2: every listed item whose status is 'done' has its output blob, output URL
\* and output name set, whatever handleFiles, convertAll, the preview callback,
\* deleteItem and clearAll did before.
C2_DoneHasOutput ==
  \A id \in Listed :
    it[id].status = "done" => /\ it[id].outputBlob # NoBlob
                              /\ it[id].outputUrl.set
                              /\ it[id].outputName # NoName

\* A listed 'done' item that is also the previewed one, after a conversion of
\* the view resolved and the callback ran.
C2_Witness ==
  /\ selectedPreviewItem \in Listed
  /\ it[selectedPreviewItem].status = "done"
  /\ Mounted
  /\ views[Len(views)].webpUrl.set

\* C4: an object URL held for a converted output (an item's outputUrl, the
\* view's webpUrl) is revoked before another URL replaces it.
C4_RevokedBeforeReplaced ==
  /\ urls["output"].leaked = 0
  /\ urls["webp"].leaked = 0

RevokedOnce(u) == u.set => u.revokes = 1

\* C5: after clearAll the list and the selection are empty and every thumbnail
\* and output URL created so far has been revoked exactly once, also when a
\* convertAll invocation or a preview conversion is in flight.
C5_ClearAllRevokesAll ==
  lastOp.op = "clearAll" =>
    /\ items = << >>
    /\ selectedPreviewItem = NoItem
    /\ \A id \in AllItems : RevokedOnce(it[id].outputUrl) /\ RevokedOnce(it[id].thumbnailUrl)
    /\ \A k \in {"thumbnail", "output"} :
         /\ urls[k].leaked = 0
         /\ urls[k].twice = 0
         /\ urls[k].revoked = urls[k].created

\* C6: right after deleteItem the selection is, when the deleted item was the
\* selection, a listed item that is not 'error' or no item, and not the deleted
\* item; otherwise it is what it was.
C6_SelectionAfterDelete ==
  lastOp.op = "deleteItem" =>
    IF lastOp.sel = lastOp.id
    THEN /\ selectedPreviewItem # lastOp.id
         /\ \/ selectedPreviewItem = NoItem
            \/ /\ selectedPreviewItem \in Listed
               /\ it[selectedPreviewItem].status # "error"
    ELSE selectedPreviewItem = lastOp.sel

\* The previewed item has just been deleted and the preview moved to a
\* remaining item.
C6_Witness ==
  /\ lastOp.op = "deleteItem"
  /\ lastOp.sel = lastOp.id
  /\ selectedPreviewItem \in Listed

Converting == {id \in AllItems : it[id].status = "converting"}

\* C11: at most one item has status 'converting' at any time, also when
\* convertAll is triggered again while an earlier invocation is suspended at
\* its await.
C11_AtMostOneConverting == Cardinality(Converting) <= 1

\* The positions from idx on whose item the loop of convertAll does not skip.
LaterEligible(idx) ==
  {p \in idx..Len(items) : it[items[p]].status \in {"queued", "error"}}

\* C12: when the conversion awaited by a convertAll invocation fails, the item
\* becomes 'error' with the failure's message and the same invocation goes on:
\* it starts the conversion of the next queued or error item its loop has yet
\* to read, and ends only when there is none.
C12_FailureDoesNotAbort ==
  [][\A inv \in invs :
       (lastOp'.op = "convertAllCatch" /\ inv \notin invs') =>
         /\ it'[inv.cur].status = "error"
         /\ it'[inv.cur].errorMessage \in ConverterErrors
         /\ IF LaterEligible(inv.idx) = {}
            THEN invs' = invs \ {inv}
            ELSE \E n \in invs' \ invs :
                   /\ n.cur = items[CHOOSE p \in LaterEligible(inv.idx) :
                                      \A r \in LaterEligible(inv.idx) : p <= r]
                   /\ it'[n.cur].status = "converting"]_vars

\* A conversion of a batch has just failed and the invocation went on to
\* convert a later item.
C12_Witness ==
  /\ lastOp.op = "convertAllCatch"
  /\ lastOp.id # NoItem
  /\ it[lastOp.id].status = "converting"
  /\ \E id \in Listed : /\ it[id].status = "error"
                        /\ it[id].errorMessage \in ConverterErrors

\* C13: when a call of convertImageToWebP has exited, resolved or rejected, the
\* bitmap it decoded has been closed and the object URL it created has been
\* revoked.
C13_ReleasedOnEveryExit ==
  conv.pc = "exit" => /\ conv.bitmap # "open"
                      /\ RevokedOnce(conv.src)

\* The outcomes the calls exit with are those the page's handlers are given.
ConverterExitsAreOutcomes == conv.pc = "exit" => conv.outcome \in Outcomes

\* The views torn down whose conversions have all settled.
TornDown ==
  {n \in 1..Len(views) :
     /\ ~views[n].mounted
     /\ \A i \in 1..Len(previews) : previews[i].inst # n}

\* C14: once the comparison view is torn down and its conversions have settled,
\* every originalUrl and webpUrl it created has been revoked.
C14_TeardownRevokesAll ==
  (TornDown # {} /\ ~Mounted) =>
    \A k \in {"original", "webp"} :
      /\ urls[k].leaked = 0
      /\ urls[k].revoked >= urls[k].created
      /\ \A n \in TornDown : RevokedOnce(views[n].originalUrl) /\ RevokedOnce(views[n].webpUrl)

Pan(g) == <<g.panX, g.panY>>

\* C15: panning is permitted only when zoomed in and the pan offset is (0,0)
\* whenever the zoom returns to exactly 1: a step taken at scale <= 1 changes
\* the offset only by resetting it, and a step that brings scale to 1 leaves
\* the offset (0,0).
C15_PanOnlyWhenZoomed ==
  [][/\ (gest.scale <= Unit /\ Pan(gest') # Pan(gest)) =>
          (Pan(gest') = <<0, 0>> /\ gest'.scale = Unit)
     /\ (gest'.scale = Unit /\ gest.scale # Unit) => Pan(gest') = <<0, 0>>]_vars

\* C16: the zoom factor lies in [0.5, 3.0] in every state of the view.
C16_ScaleInRange == gest.scale \in MinScale..MaxScale

\* Zooming in has reached the upper limit.
C16_Witness == gest.scale = MaxScale /\ gest.zooms = MaxZooms

\* C17: dividerPosition lies in [5, 95] and changes only in a step that leaves
\* the divider drag active: the mousedown on the divider or a mousemove during
\* the drag, not a mousemove after the mouseup.
C17_DividerInRange ==
  [][/\ gest.dividerPosition \in 5..95
     /\ gest'.dividerPosition \in 5..95
     /\ gest'.dividerPosition # gest.dividerPosition => gest'.isDragging]_vars

\* The divider was dragged past the right edge and released.
C17_Witness == ~gest.isDragging /\ gest.dividerPosition = 95

\* The view on display (NewView when there is none).
View == IF Mounted THEN views[Len(views)] ELSE NewView

\* The template shows the comparison: {#if !isLoading && originalUrl && webpUrl}
ShowsComparison(v) == ~v.isLoading /\ v.originalUrl.set /\ v.webpUrl.set

\* C18: when quality changes while the view shows a converted image, isLoading
\* stays false and webpUrl keeps its value: the previous image stays on
\* display while the fresh conversion runs.
C18_QualityChangeDoesNotBlock ==
  [][(Mounted /\ ShowsComparison(View) /\ quality' # quality) =>
       /\ ~views'[Len(views)].isLoading
       /\ views'[Len(views)].webpUrl = View.webpUrl]_vars

\* The blob of the request made for the selection and the quality of now.
CurrentBlob == ConvertedBlob(it[selectedPreviewItem].file, quality)

\* C19: preview conversions in flight are never cancelled and the one that
\* resolves last wins: each conversion that resolves, the request of an older
\* quality included, sets the view's webpSize and is reported through
\* onWebPGenerated to the selected item.
C19_LastResolvedWins ==
  [][urls'["webp"].created > urls["webp"].created =>
       \E i \in 1..Len(previews) :
         LET p == previews[i]
             blob == ConvertedBlob(it[p.item].file, p.q)
         IN /\ previews' = RemoveAt(previews, i)
            /\ views'[p.inst].webpUrl = FreshUrl
            /\ views'[p.inst].webpSize = BlobSize(blob)
            /\ selectedPreviewItem # NoItem =>
                 /\ it'[selectedPreviewItem].outputBlob = blob
                 /\ it'[selectedPreviewItem].sizeAfter = BlobSize(blob)]_vars

\* All conversions have settled, at least two of them have resolved, and
\* the view and the selected item hold the result of the older quality.
C19_Witness ==
  /\ Mounted
  /\ previews = << >>
  /\ selectedPreviewItem # NoItem
  /\ urls["webp"].created >= 2
  /\ View.webpUrl.set
  /\ View.webpSize # BlobSize(CurrentBlob)
  /\ it[selectedPreviewItem].outputBlob # CurrentBlob
  /\ it[selectedPreviewItem].outputBlob.file = it[selectedPreviewItem].file

Extensions == {<<".", "j", "p", "g">>, <<".", "j", "p", "e", "g">>, <<".", "p", "n", "g">>}

DotWebp == <<".", "w", "e", "b", "p">>

\* A 'done' item of file f as convertAll leaves it, and its name in the archive
\* when outputName is missing.
NamedByConvertAll(f) == ConversionDone(<<NewItem(f)>>, 1, ConvertedBlob(f, quality))[1]

\* C20: the output name is the file name without one trailing '.jpg', '.jpeg'
\* or '.png', matched in any case and only at the end, followed by '.webp';
\* convertAll and the fallback of downloadAllZip give the same name.
C20_OutputName ==
  /\ naming.out # NoName =>
       LET name == naming.name
           out == naming.out
           stem == SubSeq(out, 1, Len(out) - Len(DotWebp))
           cut == SubSeq(name, Len(stem) + 1, Len(name))
       IN /\ Len(out) >= Len(DotWebp)
          /\ Suffix(out, Len(DotWebp)) = DotWebp
          /\ Len(stem) <= Len(name)
          /\ stem = SubSeq(name, 1, Len(stem))
          /\ cut = << >> \/ LowerSeq(cut) \in Extensions
          /\ cut = << >> =>
               \A ext \in Extensions :
                 ~(Len(name) >= Len(ext) /\ LowerSeq(Suffix(name, Len(ext))) = ext)
  /\ \A f \in FileIds :
       /\ NamedByConvertAll(f).outputName = OutputName(FileTable[f].name)
       /\ EntryName(NewItem(f)) = NamedByConvertAll(f).outputName
       /\ EntryName(NamedByConvertAll(f)) = NamedByConvertAll(f).outputName

\* Of a name with two extensions, the second in upper case, only the last is
\* removed.
C20_Witness ==
  /\ naming.name = <<"a", ".", "j", "p", "g", ".", "P", "N", "G">>
  /\ naming.out = <<"a", ".", "j", "p", "g", ".", "w", "e", "b", "p">>

\* C21: the preview selection is empty or an item of the list, also after a
\* timer fires whose item was deleted or cleared in the meantime.
C21_SelectionListed == selectedPreviewItem = NoItem \/ selectedPreviewItem \in Listed

\* C22: the output blob an item holds is the conversion of that item's own
\* file, also when a preview conversion resolves after the selection moved.
C22_BlobOfOwnFile ==
  \A id \in AllItems :
    it[id].outputBlob # NoBlob => it[id].outputBlob.file = it[id].file

StatusSteps ==
  {<<"queued", "converting">>, <<"error", "converting">>,
   <<"converting", "done">>, <<"converting", "error">>}

\* C23: the status of an item changes only from queued or error to converting
\* and from converting to done or error.
C23_StatusLifecycle ==
  [][\A id \in AllItems :
       \/ it'[id].status = it[id].status
       \/ <<it[id].status, it'[id].status>> \in StatusSteps]_vars

\* An item that failed, was converted again and is done (the message of the
\* failure is still on it), next to one that is being converted.
C23_Witness ==
  /\ \E id \in Listed : it[id].status = "done" /\ it[id].errorMessage \in ConverterErrors
  /\ \E id \in Listed : it[id].status = "converting"

\* C25: no listed item holds an outputUrl or thumbnailUrl that has been
\* revoked, and no thumbnail or output URL is revoked twice.
C25_NoStaleNoDoubleRevoke ==
  /\ \A id \in Listed : it[id].outputUrl.revokes = 0 /\ it[id].thumbnailUrl.revokes = 0
  /\ \A id \in AllItems : it[id].outputUrl.revokes <= 1 /\ it[id].thumbnailUrl.revokes <= 1
  /\ urls["output"].twice = 0
  /\ urls["thumbnail"].twice = 0

\* C24: when every conversion call settles, every item that is 'converting'
\* becomes 'done' or 'error' and every convertAll invocation finishes, also
\* when items are added, deleted or cleared during the batch.
C24_ConversionsTerminate ==
  /\ \A id \in 1..MaxItems :
       (id \in AllItems /\ it[id].status = "converting")
         ~> (id \in AllItems /\ it[id].status \in {"done", "error"})
  /\ \A slot \in 1..MaxInvocations :
       (\E inv \in invs : inv.slot = slot) ~> (\A inv \in invs : inv.slot # slot)

\* An item deleted while it was being converted has become 'done' (its output
\* URL was made after the deletion) and no invocation is left suspended.
C24_Witness ==
  /\ invs = {}
  /\ \E id \in AllItems \ Listed : /\ it[id].status = "done"
                                    /\ it[id].outputUrl.set
                                    /\ it[id].outputUrl.revokes = 0

====
